---------------------------- MODULE Spec2Model ----------------------------
(***************************************************************************)
(* A model of the chat session engine of src/utils.py: the Chatbot class   *)
(* (message log, turn loop, statistics, artifact naming) and the part of   *)
(* the Conversation loader that hands a stored log to a new Chatbot.       *)
(*                                                                         *)
(* Python str values are modelled as sequences of one-character strings,   *)
(* so that len(), ==, lower(), split() and re.sub() are computed and not   *)
(* assumed.                                                                *)
(***************************************************************************)
EXTENDS Integers, Sequences, FiniteSets, TLC

(***************************************************************************)
(* Bounds of the model.                                                    *)
(***************************************************************************)
\* generate_response calls in a run of the program
MaxTurns == 2

\* runs of the program, one after another, on the same folder
MaxSaves == 3

\* generate_response calls in all of these runs together
MaxStoreTurns == 1

\* runs of the program in a chain of conversations saved and resumed
MaxChain == 2

\* the clock's last minute in a behaviour (minutes 0..MaxMinute)
MaxMinute == 1

\* length of the stored logs the loader is tried on
MaxPriorLen == 3

(***************************************************************************)
(* Characters and the str methods the code uses.                           *)
(***************************************************************************)
UpperCase ==
    << "A", "B", "C", "D", "E", "F", "G", "H", "I", "J", "K", "L", "M", "N", "O", "P", "Q", "R",
       "S", "T", "U", "V", "W", "X", "Y", "Z" >>

LowerCase ==
    << "a", "b", "c", "d", "e", "f", "g", "h", "i", "j", "k", "l", "m", "n", "o", "p", "q", "r",
       "s", "t", "u", "v", "w", "x", "y", "z" >>

Digits ==
    << "0", "1", "2", "3", "4", "5", "6", "7", "8", "9" >>

\* the characters str.split() and the regex class \s treat as whitespace
Whitespace == {" ", "\n", "\t"}

Range(s) == {s[i] : i \in 1..Len(s)}

\* the regex class \w: letters, digits and the underscore
IsWordChar(c) == c \in Range(UpperCase) \cup Range(LowerCase) \cup Range(Digits) \cup {"_"}

\* one character of str.lower()
LowerChar(c) ==
    IF \E i \in 1..Len(UpperCase) : UpperCase[i] = c
    THEN LowerCase[CHOOSE i \in 1..Len(UpperCase) : UpperCase[i] = c]
    ELSE c

\* str.lower()
Lower(s) == [i \in 1..Len(s) |-> LowerChar(s[i])]

\* the Python operator "sub in s" on str
Contains(s, sub) ==
    \E i \in 1..(Len(s) - Len(sub) + 1) : SubSeq(s, i, i + Len(sub) - 1) = sub

\* length of the leading run of non-whitespace characters of s
RECURSIVE WordLen(_)
WordLen(s) ==
    IF s = <<>> \/ Head(s) \in Whitespace THEN 0 ELSE 1 + WordLen(Tail(s))

\* str.split() without arguments: the maximal runs of non-whitespace
RECURSIVE Split(_)
Split(s) ==
    IF s = <<>> THEN <<>>
    ELSE IF Head(s) \in Whitespace THEN Split(Tail(s))
    ELSE LET n == WordLen(s)
         IN  <<SubSeq(s, 1, n)>> \o Split(SubSeq(s, n + 1, Len(s)))

\* re.sub(r"\n", " ", s)
NewlinesToSpaces(s) == [i \in 1..Len(s) |-> IF s[i] = "\n" THEN " " ELSE s[i]]

\* re.sub(r"[^\w\s]", "", s)
StripPunctuation(s) == SelectSeq(s, LAMBDA c : IsWordChar(c) \/ c \in Whitespace)

\* " ".join(words)
RECURSIVE JoinWithSpaces(_)
JoinWithSpaces(words) ==
    IF words = <<>> THEN <<>>
    ELSE IF Len(words) = 1 THEN words[1]
    ELSE words[1] \o <<" ">> \o JoinWithSpaces(Tail(words))

\* list.index(x): the first position of x, 0 standing for the ValueError
IndexOf(words, x) ==
    IF \E i \in 1..Len(words) : words[i] = x
    THEN CHOOSE i \in 1..Len(words) : words[i] = x /\ \A j \in 1..(i - 1) : words[j] # x
    ELSE 0

\* str(n) of a natural number, as f"{counter}" formats it
RECURSIVE IntToText(_)
IntToText(n) ==
    IF n < 10 THEN <<Digits[n + 1]>>
    ELSE IntToText(n \div 10) \o <<Digits[(n % 10) + 1]>>

\* sum(len(string) for string in texts)
RECURSIVE SumLen(_)
SumLen(texts) ==
    IF texts = <<>> THEN 0 ELSE Len(Head(texts)) + SumLen(Tail(texts))

\* [word for string in texts for word in string.split()]
RECURSIVE Flatten(_)
Flatten(lists) ==
    IF lists = <<>> THEN <<>> ELSE Head(lists) \o Flatten(Tail(lists))

(***************************************************************************)
(* The texts of the program.                                               *)
(***************************************************************************)
HenryName ==
    << "H", "e", "n", "r", "y" >>

VeraName ==
    << "V", "e", "r", "a" >>

HenryPersonality ==
    << "Y", "o", "u", " ", "s", "h", "o", "u", "l", "d", " ", "t", "r", "y", " ", "t", "o", " ",
       "m", "a", "k", "e", " ", "a", "s", " ", "m", "a", "n", "y", " ", "j", "o", "k", "e", "s",
       " ", "a", "s", " ", "p", "o", "s", "s", "i", "b", "l", "e", ",", " ", "w", "h", "i", "l",
       "s", "t", " ", "s", "t", "a", "y", "i", "n", "g", " ", "r", "e", "l", "e", "v", "a", "n",
       "t", " ", "t", "o", " ", "t", "h", "e", " ", "c", "o", "n", "v", "e", "r", "s", "a", "t",
       "i", "o", "n", "." >>

VeraPersonality ==
    << "Y", "o", "u", " ", "a", "r", "e", " ", "a", " ", "v", "e", "r", "y", " ", "s", "a", "d",
       " ", "c", "h", "a", "t", "b", "o", "t", " ", "a", "n", "d", " ", "t", "r", "y", " ", "r",
       "e", "s", "p", "o", "n", "d", " ", "a", "s", " ", "p", "e", "s", "s", "i", "m", "i", "s",
       "t", "i", "c", "a", "l", "l", "y", " ", "a", "s", " ", "p", "o", "s", "s", "i", "b", "l",
       "e", "." >>

HenryStartPrompt ==
    << "H", "i", " ", "T", "h", "e", "r", "e", ",", " ", "I", " ", "a", "m", " ", "H", "e", "n",
       "r", "y", " ", "t", "h", "e", " ", "c", "h", "a", "t", "b", "o", "t", ".", " ", "W", "h",
       "a", "t", " ", "w", "o", "u", "l", "d", " ", "y", "o", "u", " ", "l", "i", "k", "e", " ",
       "t", "o", " ", "c", "h", "a", "t", " ", "a", "b", "o", "u", "t", " ", "t", "o", "d", "a",
       "y", "?" >>

VeraStartPrompt ==
    << "H", "e", "l", "l", "o", ",", " ", "a", "r", "e", " ", "y", "o", "u", " ", "a", "l", "s",
       "o", " ", "v", "e", "r", "y", " ", "s", "a", "d", " ", "t", "o", "d", "a", "y", "?", " ",
       "W", "h", "a", "t", " ", "i", "s", " ", "h", "a", "p", "p", "e", "n", "i", "n", "g", " ",
       "t", "o", "d", "a", "y", "?" >>

DefaultExitCue ==
    << "E", "X", "I", "T" >>

DefaultGoodbye ==
    << "S", "e", "e", " ", "y", "o", "u", " ", "n", "e", "x", "t", " ", "t", "i", "m", "e", "." >>

Unknown ==
    << "U", "N", "K", "N", "O", "W", "N" >>

MyNameIs ==
    << "m", "y", " ", "n", "a", "m", "e", " ", "i", "s" >>

NameWord ==
    << "n", "a", "m", "e" >>

\* the two bots of run.py and of Conversation.continue_conversation
Henry ==
    [name |-> HenryName, personality |-> HenryPersonality, start_prompt |-> HenryStartPrompt]

Vera ==
    [name |-> VeraName, personality |-> VeraPersonality, start_prompt |-> VeraStartPrompt]

Personas == {Henry, Vera}

(***************************************************************************)
(* Lines the user types and replies of the backend.                        *)
(***************************************************************************)
Hi ==
    << "h", "i" >>

ExitLowerCase ==
    << "e", "x", "i", "t" >>

ExitPadded ==
    << " ", "E", "X", "I", "T" >>

MyNameIsAl ==
    << "m", "y", " ", "n", "a", "m", "e", " ", "i", "s", " ", "A", "l" >>

MyNameCapitalised ==
    << "M", "y", " ", "N", "a", "m", "e", " ", "i", "s", " ", "A", "l" >>

Gloomy ==
    << "g", "l", "o", "o", "m", "y" >>

TwoLines ==
    << "O", "h", " ", "n", "o", "!", "\n", "W", "h", "y", "?" >>

\* lines tried on the extractors of the statistics
NameBare ==
    << "m", "y", " ", "n", "a", "m", "e", " ", "i", "s" >>

IsBeforeName ==
    << "i", "t", " ", "i", "s", " ", "m", "e", ",", " ", "m", "y", " ", "n", "a", "m", "e", " ",
       "i", "s", " ", "A", "l" >>

PunctuationOnly ==
    << "h", "i", " ", "?", "!" >>

ExtractLines ==
    {DefaultExitCue, MyNameIsAl, NameBare, IsBeforeName, PunctuationOnly, MyNameCapitalised}

\* the lines tried on the turn loop
UserLines == {DefaultExitCue, Hi, ExitLowerCase, ExitPadded, MyNameCapitalised}

Replies == {Gloomy, TwoLines}

(***************************************************************************)
(* Messages and the message log.                                           *)
(***************************************************************************)
\* a dict {"role": role, "content": content}
Message(role, content) == [role |-> role, content |-> content]

\* [message["content"] for message in messages if message["role"] == role]
ContentsOf(messages, role) ==
    LET chosen == SelectSeq(messages, LAMBDA m : m.role = role)
    IN  [i \in 1..Len(chosen) |-> chosen[i].content]

\* a filter that puts the personality where a log usually has it, at the head
filter_prior_chat_head(personality, prior_messages) ==
    <<Message("system", personality)>>
        \o SelectSeq(prior_messages, LAMBDA message : message.role # "system")

\* a filter that only appends the personality
filter_prior_chat_append_only(personality, prior_messages) ==
    Append(prior_messages, Message("system", personality))

\* a filter that drops the first system entry only
filter_prior_chat_first_only(personality, prior_messages) ==
    LET systems == {i \in 1..Len(prior_messages) : prior_messages[i].role = "system"}
        first   == IF systems = {} THEN 0
                   ELSE CHOOSE i \in systems : \A j \in systems : i <= j
    IN  Append([k \in 1..(Len(prior_messages) - (IF first = 0 THEN 0 ELSE 1)) |->
                   IF first = 0 \/ k < first THEN prior_messages[k]
                   ELSE prior_messages[k + 1]],
               Message("system", personality))

\* Chatbot.filter_prior_chat: drop the system entries, append the personality
filter_prior_chat(personality, prior_messages) ==
    Append(SelectSeq(prior_messages, LAMBDA message : message.role # "system"),
           Message("system", personality))

\* a constructor that takes the prior messages as they are
InitialMessagesAsStored(personality, has_prior, prior_messages) ==
    IF ~has_prior
    THEN <<Message("system", personality)>>
    ELSE prior_messages

\* the message history Chatbot.__init__ sets
InitialMessages(personality, has_prior, prior_messages) ==
    IF ~has_prior
    THEN <<Message("system", personality)>>
    ELSE filter_prior_chat(personality, prior_messages)

(***************************************************************************)
(* Statistics of a conversation.                                           *)
(***************************************************************************)
\* the stop_words of extract_conversation_topic, self.name among them
StopWords(name) ==
    { <<"I">>, <<"i">>,
    << "H", "i" >>,
    << "H", "e", "l", "l", "o" >>,
    << "h", "i" >>,
    << "h", "e", "l", "l", "o" >>,
      name,
    << "w", "a", "n", "t" >>,
    << "w", "o", "u", "l", "d" >>,
    << "m", "o", "r", "e" >>,
    << "t", "o" >>,
    << "c", "h", "a", "t" >>,
    << "d", "i", "s", "c", "u", "s", "s" >>,
    << "a", "b", "o", "u", "t" >>,
    << "a", "s", "k" >>,
    << "y", "o", "u" >>,
    << "I", "d" >>,
    << "l", "i", "k", "e" >>,
    << "p", "l", "e", "a", "s", "e" >>,
    << "t", "a", "l", "k" >>,
    << "k", "n", "o", "w" >> }

\* Chatbot.extract_conversation_topic
extract_conversation_topic(name, user_messages) ==
    LET words    == Split(user_messages[1])
        stripped == [i \in 1..Len(words) |-> StripPunctuation(words[i])]
        subject  == SelectSeq(stripped, LAMBDA word : word \notin StopWords(name))
    IN  IF Len(subject) > 0 THEN JoinWithSpaces(subject) ELSE Unknown

\* an extractor that takes the word after the first "is"
RECURSIVE extract_user_name_after_is(_)
extract_user_name_after_is(user_messages) ==
    IF user_messages = <<>> THEN [raised |-> FALSE, value |-> Unknown]
    ELSE LET message == Head(user_messages)
         IN  IF Contains(Lower(message), MyNameIs)
             THEN LET words == Split(message)
                      found == IndexOf(words, <<"i", "s">>)
                  IN  IF found = 0 THEN [raised |-> TRUE, value |-> <<>>]
                      ELSE IF found + 1 <= Len(words)
                           THEN [raised |-> FALSE, value |-> words[found + 1]]
                           ELSE extract_user_name_after_is(Tail(user_messages))
             ELSE extract_user_name_after_is(Tail(user_messages))

\* an extractor that stops at the first message with the phrase
RECURSIVE extract_user_name_first_match(_)
extract_user_name_first_match(user_messages) ==
    IF user_messages = <<>> THEN [raised |-> FALSE, value |-> Unknown]
    ELSE LET message == Head(user_messages)
         IN  IF Contains(Lower(message), MyNameIs)
             THEN LET words == Split(message)
                      found == IndexOf(words, NameWord)
                  IN  IF found = 0 THEN [raised |-> TRUE, value |-> <<>>]
                      ELSE IF found + 2 <= Len(words)
                           THEN [raised |-> FALSE, value |-> words[found + 2]]
                           ELSE [raised |-> FALSE, value |-> Unknown]
             ELSE extract_user_name_first_match(Tail(user_messages))

\* Chatbot.extract_user_name; raised stands for the ValueError of words.index
RECURSIVE extract_user_name(_)
extract_user_name(user_messages) ==
    IF user_messages = <<>> THEN [raised |-> FALSE, value |-> Unknown]
    ELSE LET message == Head(user_messages)
         IN  IF Contains(Lower(message), MyNameIs)
             THEN LET words == Split(message)
                      found == IndexOf(words, NameWord)
                  IN  IF found = 0 THEN [raised |-> TRUE, value |-> <<>>]
                      ELSE IF found + 2 <= Len(words)
                           THEN [raised |-> FALSE, value |-> words[found + 2]]
                           ELSE extract_user_name(Tail(user_messages))
             ELSE extract_user_name(Tail(user_messages))

\* a user_messages list that holds the exit cue twice
UserMessagesCueTwice(bot) ==
    ContentsOf(bot.messages, "user") \o <<bot.exit_cue, bot.exit_cue>>

\* the user_messages list of get_conversation_statistics
UserMessages(bot) == Append(ContentsOf(bot.messages, "user"), bot.exit_cue)

\* a bot_messages list that leaves the goodbye out
BotMessagesWithoutGoodbye(bot) ==
    <<bot.start_prompt>> \o ContentsOf(bot.messages, "assistant")

\* the bot_messages list of get_conversation_statistics
BotMessages(bot) ==
    <<bot.start_prompt>> \o ContentsOf(bot.messages, "assistant") \o <<bot.goodbye>>

\* the processed_strings list of get_conversation_statistics
ProcessedStrings(bot_messages) ==
    Flatten([i \in 1..Len(bot_messages) |->
                Split(StripPunctuation(NewlinesToSpaces(bot_messages[i])))])

\* the dictionary get_conversation_statistics returns
Summary(name, chars, words, subject, user_name, messages) ==
    ("Name of chatbot" :> name)
    @@ ("Number of characters typed by user" :> chars)
    @@ ("Number of words used by chatbot" :> words)
    @@ ("Subject of conversation" :> subject)
    @@ ("Name of user" :> user_name)
    @@ ("Messages" :> messages)

\* Chatbot.get_conversation_statistics; raised when extract_user_name raises
get_conversation_statistics(bot) ==
    LET user_messages == UserMessages(bot)
        subject       == extract_conversation_topic(bot.name, user_messages)
        user_name     == extract_user_name(user_messages)
    IN  IF user_name.raised THEN [raised |-> TRUE, value |-> <<>>]
        ELSE [raised |-> FALSE,
              value  |-> <<Summary(bot.name, SumLen(user_messages),
                                   Len(ProcessedStrings(BotMessages(bot))),
                                   subject, user_name.value, bot.messages)>>]

(***************************************************************************)
(* Names of the stored artifacts.                                          *)
(***************************************************************************)
FilePrefix ==
    << "c", "o", "n", "v", "e", "r", "s", "a", "t", "i", "o", "n", "_" >>

FileSuffix ==
    << ".", "j", "s", "o", "n" >>

DatePrefix ==
    << "2", "0", "2", "3", "-", "0", "8", "-", "1", "4", "-", "0", "9", "-" >>

\* datetime.now().strftime("%Y-%m-%d-%H-%M") in minute m of the modelled hour
Timestamp(m) == DatePrefix \o (IF m < 10 THEN <<"0">> ELSE <<>>) \o IntToText(m)

\* f"conversation_{timestamp}.json"
PlainName(timestamp) == FilePrefix \o timestamp \o FileSuffix

\* f"conversation_{timestamp} ({counter}).json"
CounterName(timestamp, counter) ==
    FilePrefix \o timestamp \o <<" ", "(">> \o IntToText(counter) \o <<")">> \o FileSuffix

\* the while loop of store_conversation_statistics, entered with this counter
RECURSIVE ProbeName(_, _, _)
ProbeName(timestamp, counter, files) ==
    IF CounterName(timestamp, counter) \in files
    THEN ProbeName(timestamp, counter + 1, files)
    ELSE CounterName(timestamp, counter)

\* a file_path that is not checked against the folder
FilePathUnchecked(timestamp, files) ==
    PlainName(timestamp)

\* the file_path store_conversation_statistics opens for writing
FilePath(timestamp, files) ==
    IF PlainName(timestamp) \in files THEN ProbeName(timestamp, 1, files)
    ELSE PlainName(timestamp)

\* the folder after open(file_path, "w") and json.dump
WriteFile(files, file_path, content) ==
    [f \in DOMAIN files \cup {file_path} |-> IF f = file_path THEN content ELSE files[f]]

(***************************************************************************)
(* The folder of stored conversations before the first run.                *)
(***************************************************************************)
EmptyStore == [f \in {} |-> <<>>]

\* a log an earlier conversation with Vera left in its artifact
OldLog ==
    <<Message("system", VeraPersonality), Message("user", Hi), Message("assistant", Gloomy)>>

\* a log holding two system entries, the second after the user's message
TwoSystemLog ==
    <<Message("system", HenryPersonality), Message("user", MyNameIsAl),
      Message("system", VeraPersonality), Message("assistant", Gloomy)>>

\* the artifact of a Chatbot that collected its statistics over this log
OldArtifact(log) ==
    get_conversation_statistics(
        [name |-> VeraName, personality |-> VeraPersonality,
         start_prompt |-> VeraStartPrompt, store_conversation |-> TRUE,
         exit_cue |-> DefaultExitCue, goodbye |-> DefaultGoodbye,
         messages |-> log]).value[1]

\* the log of a conversation that ended at its first input
SystemOnlyLog == <<Message("system", VeraPersonality)>>

\* the folders a run of the program may find: empty, one artifact, or two
\* artifacts of which the first has lost its unnumbered neighbour
InitialStores ==
    { EmptyStore,
      WriteFile(EmptyStore, PlainName(Timestamp(0)), OldArtifact(OldLog)),
      WriteFile(WriteFile(EmptyStore, CounterName(Timestamp(0), 1),
                          OldArtifact(TwoSystemLog)),
                PlainName(Timestamp(1)), OldArtifact(SystemOnlyLog)) }

(***************************************************************************)
(* State.                                                                  *)
(***************************************************************************)
VARIABLES
    bot,                     \* the fields of the Chatbot object (self)
    prior_chat,              \* the prior_chat argument the object was built with
    pc,                      \* where the program is
    user_input,              \* the line input() returned, the argument of generate_response
    stdout,                  \* the lines printed in this run
    conversation_statistics, \* the local of run_chat: <<>> or <<summary>>
    exception,               \* the exception that left generate_response or run_chat
    turns,                   \* generate_response calls on this object
    calls,                   \* generate_response calls of all runs
    sessions,                \* runs of the program so far
    store,                   \* the folder: file name -> stored dictionary
    store0,                  \* the folder as the first run found it
    now                      \* the minute datetime.now() fell in when last read

vars ==
    <<bot, prior_chat, pc, user_input, stdout, conversation_statistics, exception,
      turns, calls, sessions, store, store0, now>>

\* the values of the variables of a run while no Chatbot exists
NoBot ==
    [name |-> <<>>, personality |-> <<>>, start_prompt |-> <<>>,
     store_conversation |-> FALSE, exit_cue |-> <<>>, goodbye |-> <<>>,
     messages |-> <<>>]

NoPriorChat == [given |-> FALSE, messages |-> <<>>]

InitOver(stores) ==
    /\ store0 \in stores
    /\ store = store0
    /\ now = 0
    /\ pc = "idle"
    /\ bot = NoBot
    /\ prior_chat = NoPriorChat
    /\ user_input = <<>>
    /\ stdout = <<>>
    /\ conversation_statistics = <<>>
    /\ exception = "none"
    /\ turns = 0
    /\ calls = 0
    /\ sessions = 0

Init == InitOver(InitialStores)

(***************************************************************************)
(* Operations.                                                             *)
(***************************************************************************)
\* Chatbot.__init__ for a new conversation, or for the messages loaded from a file
ChatbotInit(persona, has_prior, prior_messages, keep) ==
    /\ pc = "idle"
    /\ bot' = [name               |-> persona.name,
               personality        |-> persona.personality,
               messages           |-> InitialMessages(persona.personality, has_prior,
                                                      prior_messages),
               start_prompt       |-> persona.start_prompt,
               store_conversation |-> keep,
               exit_cue           |-> DefaultExitCue,
               goodbye            |-> DefaultGoodbye]
    /\ prior_chat' = [given |-> has_prior, messages |-> prior_messages]
    /\ pc' = "constructed"
    /\ sessions' = sessions + 1
    /\ UNCHANGED <<user_input, stdout, conversation_statistics, exception, turns, calls,
                   store, store0, now>>

\* run.py and Conversation.start_new_conversation: a bot without prior chat
StartNewConversation(persona, keep) ==
    ChatbotInit(persona, FALSE, <<>>, keep)

\* Conversation.handle_saved_conversations and continue_conversation
ContinueConversation(selected_file, persona, keep) ==
    /\ selected_file \in DOMAIN store
    /\ ChatbotInit(persona, TRUE, store[selected_file]["Messages"], keep)

\* run_chat up to its first input(): the starting prompt is printed
RunChatStart ==
    /\ pc = "constructed"
    /\ stdout' = Append(stdout, bot.name \o <<":", " ">> \o bot.start_prompt)
    /\ pc' = "awaiting"
    /\ UNCHANGED <<bot, prior_chat, user_input, conversation_statistics, exception,
                   turns, calls, sessions, store, store0, now>>

\* a test that takes the exit cue in any letter case
IsExitCueAnyCase(line, exit_cue) == Lower(line) = Lower(exit_cue)

\* the test of run_chat that ends the loop
IsExitCue(line, exit_cue) == line = exit_cue

\* generate_response forgetting to append the user's message
AppendUserMessageSkipped(line) ==
    bot' = bot

\* generate_response putting the user's message in front of the log
AppendUserMessageInFront(line) ==
    bot' = [bot EXCEPT !.messages = <<Message("user", line)>> \o @]

\* generate_response up to the request: the user's message is appended
AppendUserMessage(line) ==
    bot' = [bot EXCEPT !.messages = Append(@, Message("user", line))]

\* an exit that appends the exit cue to the log as a user message
ReadExitCueLogsCue(line) ==
    /\ pc = "awaiting"
    /\ IsExitCue(line, bot.exit_cue)
    /\ user_input' = line
    /\ AppendUserMessage(line)
    /\ stdout' = Append(stdout, bot.name \o <<":", " ">> \o bot.goodbye)
    /\ pc' = IF bot.store_conversation THEN "collect" ELSE "closed"
    /\ UNCHANGED <<prior_chat, conversation_statistics, exception, turns, calls,
                   sessions, store, store0, now>>

\* run_chat reads the exit cue: goodbye, then the statistics if they are kept
ReadExitCue(line) ==
    /\ pc = "awaiting"
    /\ IsExitCue(line, bot.exit_cue)
    /\ user_input' = line
    /\ stdout' = Append(stdout, bot.name \o <<":", " ">> \o bot.goodbye)
    /\ pc' = IF bot.store_conversation THEN "collect" ELSE "closed"
    /\ UNCHANGED <<bot, prior_chat, conversation_statistics, exception, turns, calls,
                   sessions, store, store0, now>>

\* run_chat reads any other line and calls generate_response
ReadUserLine(line, max_turns) ==
    /\ pc = "awaiting"
    /\ ~IsExitCue(line, bot.exit_cue)
    /\ calls < max_turns
    /\ user_input' = line
    /\ AppendUserMessage(line)
    /\ turns' = turns + 1
    /\ calls' = calls + 1
    /\ pc' = "generating"
    /\ UNCHANGED <<prior_chat, stdout, conversation_statistics, exception, sessions,
                   store, store0, now>>

\* the caller of run_chat calls generate_response after run_chat returned
CallAfterClose(line, max_turns) ==
    /\ pc = "closed"
    /\ calls < max_turns
    /\ AppendUserMessage(line)
    /\ turns' = turns + 1
    /\ calls' = calls + 1
    /\ user_input' = line
    /\ pc' = "closed_generating"
    /\ UNCHANGED <<prior_chat, stdout, conversation_statistics, exception,
                   sessions, store, store0, now>>

\* openai.ChatCompletion.create returns: the reply is appended and printed
BackendReply(chatbot_reply) ==
    /\ pc \in {"generating", "closed_generating"}
    /\ bot' = [bot EXCEPT !.messages = Append(@, Message("assistant", chatbot_reply))]
    /\ stdout' = IF pc = "generating"
                 THEN Append(stdout, bot.name \o <<":", " ">> \o chatbot_reply)
                 ELSE stdout
    /\ pc' = IF pc = "generating" THEN "awaiting" ELSE "closed"
    /\ UNCHANGED <<prior_chat, user_input, conversation_statistics, exception, turns,
                   calls, sessions, store, store0, now>>

\* a failure that takes the user's message back
BackendFailRollsBack ==
    /\ pc \in {"generating", "closed_generating"}
    /\ exception' = "OpenAIError"
    /\ pc' = "failed"
    /\ bot' = [bot EXCEPT !.messages = SubSeq(@, 1, Len(@) - 1)]
    /\ UNCHANGED <<prior_chat, user_input, stdout, conversation_statistics, turns,
                   calls, sessions, store, store0, now>>

\* a caller that catches the failure and lets the turn loop prompt again
BackendFailRetries ==
    /\ pc \in {"generating", "closed_generating"}
    /\ exception' = "OpenAIError"
    /\ pc' = IF pc = "generating" THEN "awaiting" ELSE "closed"
    /\ UNCHANGED <<bot, prior_chat, user_input, stdout, conversation_statistics, turns,
                   calls, sessions, store, store0, now>>

\* openai.ChatCompletion.create raises: nothing catches it
BackendFail ==
    /\ pc \in {"generating", "closed_generating"}
    /\ exception' = "OpenAIError"
    /\ pc' = "failed"
    /\ UNCHANGED <<bot, prior_chat, user_input, stdout, conversation_statistics, turns,
                   calls, sessions, store, store0, now>>

\* a collection that puts the exit cue into the log itself
CollectStatisticsLogsCue ==
    /\ pc = "collect"
    /\ bot' = [bot EXCEPT !.messages = Append(@, Message("user", bot.exit_cue))]
    /\ LET result == get_conversation_statistics(bot)
       IN  IF result.raised
           THEN /\ exception' = "ValueError"
                /\ pc' = "failed"
                /\ UNCHANGED conversation_statistics
           ELSE /\ conversation_statistics' = result.value
                /\ pc' = "store"
                /\ UNCHANGED exception
    /\ UNCHANGED <<prior_chat, user_input, stdout, turns, calls, sessions, store,
                   store0, now>>

\* run_chat calls get_conversation_statistics
CollectStatistics ==
    /\ pc = "collect"
    /\ LET result == get_conversation_statistics(bot)
       IN  IF result.raised
           THEN /\ exception' = "ValueError"
                /\ pc' = "failed"
                /\ UNCHANGED conversation_statistics
           ELSE /\ conversation_statistics' = result.value
                /\ pc' = "store"
                /\ UNCHANGED exception
    /\ UNCHANGED <<bot, prior_chat, user_input, stdout, turns, calls, sessions, store,
                   store0, now>>

\* run_chat calls store_conversation_statistics and returns; datetime.now()
\* falls in the minute of the last reading or in a later one
StoreStatistics(minute) ==
    /\ pc = "store"
    /\ minute >= now
    /\ now' = minute
    /\ store' = WriteFile(store, FilePath(Timestamp(minute), DOMAIN store),
                          conversation_statistics[1])
    /\ pc' = "closed"
    /\ UNCHANGED <<bot, prior_chat, user_input, stdout, conversation_statistics,
                   exception, turns, calls, sessions, store0>>

\* the process ends: its objects are gone, the folder stays
ProcessExit ==
    /\ pc \in {"closed", "failed"}
    /\ pc' = "exited"
    /\ bot' = NoBot
    /\ prior_chat' = NoPriorChat
    /\ user_input' = <<>>
    /\ stdout' = <<>>
    /\ conversation_statistics' = <<>>
    /\ exception' = "none"
    /\ turns' = 0
    /\ UNCHANGED <<calls, sessions, store, store0, now>>

\* the program is run again on the folder the last run left
RunAgainUpTo(max_runs) ==
    /\ pc = "exited"
    /\ sessions < max_runs
    /\ pc' = "idle"
    /\ UNCHANGED <<bot, prior_chat, user_input, stdout, conversation_statistics,
                   exception, turns, calls, sessions, store, store0, now>>

RunAgain == RunAgainUpTo(MaxSaves)

\* the steps of one run of the program
NextOver(personas, lines, replies, max_turns) ==
    \/ \E persona \in personas, keep \in BOOLEAN :
          StartNewConversation(persona, keep)
    \/ \E selected_file \in DOMAIN store, persona \in personas, keep \in BOOLEAN :
          ContinueConversation(selected_file, persona, keep)
    \/ RunChatStart
    \/ \E line \in lines : ReadExitCue(line)
    \/ \E line \in lines : ReadUserLine(line, max_turns)
    \/ \E line \in lines : CallAfterClose(line, max_turns)
    \/ \E chatbot_reply \in replies : BackendReply(chatbot_reply)
    \/ BackendFail
    \/ CollectStatistics
    \/ \E minute \in 0..MaxMinute : StoreStatistics(minute)
    \/ ProcessExit

Next == NextOver(Personas, UserLines, Replies, MaxTurns)

Spec == Init /\ [][Next]_vars

(***************************************************************************)
(* The loader tried on every stored log up to MaxPriorLen entries.         *)
(***************************************************************************)
\* entries a stored log is made of
PriorMessages ==
    {Message("system", VeraPersonality), Message("user", Hi), Message("assistant", Gloomy)}

RECURSIVE LogsUpTo(_)
LogsUpTo(n) ==
    IF n = 0 THEN {<<>>}
    ELSE LET shorter == LogsUpTo(n - 1)
         IN  shorter \cup {Append(log, m) : log \in shorter, m \in PriorMessages}

\* folders holding one artifact with such a log
FilterStores ==
    {WriteFile(EmptyStore, PlainName(Timestamp(0)), OldArtifact(log)) :
        log \in LogsUpTo(MaxPriorLen)}

InitFilter == InitOver(FilterStores)

NextFilter ==
    \/ \E selected_file \in DOMAIN store, persona \in Personas, keep \in BOOLEAN :
          ContinueConversation(selected_file, persona, keep)
    \/ RunChatStart

SpecFilter == InitFilter /\ [][NextFilter]_vars

(***************************************************************************)
(* Runs that save one after another into the same folder.                  *)
(***************************************************************************)
NextStore ==
    \/ NextOver({Vera}, {DefaultExitCue, Hi}, {Gloomy}, MaxStoreTurns)
    \/ RunAgain

SpecStore == Init /\ [][NextStore]_vars

(***************************************************************************)
(* Properties of the message log.                                          *)
(***************************************************************************)
\* positions of the user messages of a log
UserPositions(messages) == {i \in 1..Len(messages) : messages[i].role = "user"}

\* positions of the system messages that carry this text
SystemPositions(messages, personality) ==
    {i \in 1..Len(messages) : messages[i] = Message("system", personality)}

\* the log is with the generation backend
WithBackend == pc \in {"generating", "closed_generating"}

\* run_chat has been entered and has not ended
InTurnLoop == pc \in {"constructed", "awaiting"}

\* C1: in a conversation begun without prior chat, whenever the turn loop
\* waits for input after N turns the log has 1 + 2N entries: the system
\* message of the personality, then N pairs of a user and an assistant message.
FreshLogLength ==
    (InTurnLoop /\ ~prior_chat.given) =>
        /\ Len(bot.messages) = 1 + 2 * turns
        /\ bot.messages[1] = Message("system", bot.personality)
        /\ \A n \in 1..turns :
              /\ bot.messages[2 * n].role = "user"
              /\ bot.messages[2 * n + 1].role = "assistant"

FreshLogLengthWitness ==
    /\ pc = "awaiting"
    /\ ~prior_chat.given
    /\ turns = 2
    /\ Len(bot.messages) = 5

\* C2 as stated: whenever the log is with the backend it is not empty and a
\* system message with the bot's personality stands before the first user message.
SystemBeforeFirstUser ==
    WithBackend =>
        /\ bot.messages # <<>>
        /\ \E s \in SystemPositions(bot.messages, bot.personality) :
              \A u \in UserPositions(bot.messages) : s < u

\* C2 amended: whenever the log is with the backend it is not empty and holds
\* a system message with the bot's personality; that message stands before the
\* first user message when the conversation began without prior chat or with a
\* prior chat without user messages, and behind every message of the prior chat
\* (so behind its first user message) otherwise.
SystemMessagePresent ==
    WithBackend =>
        /\ bot.messages # <<>>
        /\ SystemPositions(bot.messages, bot.personality) # {}
        /\ (~prior_chat.given \/ UserPositions(prior_chat.messages) = {}) =>
              \E s \in SystemPositions(bot.messages, bot.personality) :
                  \A u \in UserPositions(bot.messages) : s < u
        /\ (prior_chat.given /\ UserPositions(prior_chat.messages) # {}) =>
              \A s \in SystemPositions(bot.messages, bot.personality) :
                  /\ \E u \in UserPositions(bot.messages) : u < s
                  /\ s = 1 + Cardinality({i \in 1..Len(prior_chat.messages) :
                                             prior_chat.messages[i].role # "system"})

SystemMessagePresentWitness ==
    /\ pc = "generating"
    /\ prior_chat.given
    /\ UserPositions(prior_chat.messages) # {}
    /\ bot.personality = HenryPersonality
    /\ turns = 2

\* C3: a turn appends the user's message to the log as it was, and when the
\* backend fails the exception reaches the caller with the log, that user
\* message at its end, left as the request saw it.
FailureKeepsUserMessage ==
    [][ /\ (pc \in {"awaiting", "closed"} /\ WithBackend') =>
              bot'.messages = Append(bot.messages, Message("user", user_input'))
        /\ (WithBackend /\ pc' = "failed") =>
              /\ exception' = "OpenAIError"
              /\ bot'.messages = bot.messages
              /\ bot.messages[Len(bot.messages)] = Message("user", user_input) ]_vars

FailureKeepsUserMessageWitness ==
    /\ pc = "failed"
    /\ exception = "OpenAIError"
    /\ turns = 2
    /\ Len(bot.messages) >= 4
    /\ bot.messages[Len(bot.messages)] = Message("user", user_input)
    /\ bot.messages[Len(bot.messages) - 1].role = "assistant"

(***************************************************************************)
(* Properties of the log a resumed conversation starts with.               *)
(***************************************************************************)
\* positions of the entries of a log that are not system messages
NonSystemPositions(messages) == {i \in 1..Len(messages) : messages[i].role # "system"}

\* the position in the log of its k-th entry that is not a system message
NthNonSystem(messages, k) ==
    CHOOSE i \in NonSystemPositions(messages) :
        Cardinality({j \in NonSystemPositions(messages) : j <= i}) = k

\* the bot was built from a prior chat and no turn has changed its log yet
JustResumed == pc \in {"constructed", "awaiting"} /\ prior_chat.given /\ turns = 0

\* C4: the log of a resumed conversation is the prior entries that are not
\* system messages, in their order, followed by exactly one system message,
\* at the tail, with the personality of the bot.
ResumedLogShape ==
    JustResumed =>
        LET prior == prior_chat.messages
            kept  == Cardinality(NonSystemPositions(prior))
        IN  /\ Len(bot.messages) = kept + 1
            /\ \A k \in 1..kept : bot.messages[k] = prior[NthNonSystem(prior, k)]
            /\ bot.messages[kept + 1] = Message("system", bot.personality)

ResumedLogShapeWitness ==
    /\ JustResumed
    /\ Len(prior_chat.messages) = 3
    /\ prior_chat.messages[1].role = "assistant"
    /\ prior_chat.messages[2].role = "system"
    /\ prior_chat.messages[3].role = "user"
    /\ bot.personality = HenryPersonality

\* C5: filtering the log of a resumed conversation again, with the same
\* personality, gives that log again.
FilterIdempotent ==
    JustResumed => filter_prior_chat(bot.personality, bot.messages) = bot.messages

FilterIdempotentWitness ==
    /\ JustResumed
    /\ Cardinality(SystemPositions(prior_chat.messages, bot.personality)) = 2
    /\ Len(prior_chat.messages) = 3
    /\ prior_chat.messages[2].role = "user"

(***************************************************************************)
(* Properties of the end of a conversation.                                *)
(***************************************************************************)
\* the line print() writes for a text of the bot
BotLine == [text \in {bot.start_prompt, bot.goodbye} |-> bot.name \o <<":", " ">> \o text]

\* the exit branch of run_chat has been taken
ExitBranch == {"collect", "store", "closed", "closed_generating"}

\* C6: the exit branch is entered only from the wait for input and only by a
\* line equal, character for character, to the exit cue; any other line read
\* there, such as the cue in lower case or behind a blank, starts a turn.
ExitOnlyOnExactCue ==
    [][ /\ (pc \notin ExitBranch /\ pc' \in ExitBranch) =>
              (pc = "awaiting" /\ user_input' = bot.exit_cue)
        /\ (pc = "awaiting" /\ user_input' # bot.exit_cue) =>
              /\ pc' = "generating"
              /\ bot'.messages = Append(bot.messages, Message("user", user_input')) ]_vars

ExitOnlyOnExactCueWitness ==
    /\ pc = "generating"
    /\ turns = 2
    /\ user_input = ExitPadded
    /\ \E i \in UserPositions(bot.messages) : bot.messages[i].content = ExitLowerCase

\* run_chat is over after the exit cue: it returned, or the collection of
\* the statistics raised
ExitBranchOver == pc = "closed" \/ (pc = "failed" /\ exception = "ValueError")

\* C7 as stated: once the exit cue has been handled the goodbye is the last
\* line printed, and exactly one file, holding the statistics collected, has
\* been added to the folder if store_conversation is set, none otherwise.
ExitSavesOneArtifact ==
    ExitBranchOver =>
        /\ stdout[Len(stdout)] = BotLine[bot.goodbye]
        /\ IF bot.store_conversation
           THEN /\ Len(conversation_statistics) = 1
                /\ Cardinality(DOMAIN store) = Cardinality(DOMAIN store0) + 1
                /\ \A f \in DOMAIN store0 : f \in DOMAIN store /\ store[f] = store0[f]
                /\ \A f \in DOMAIN store \ DOMAIN store0 :
                      store[f] = conversation_statistics[1]
           ELSE store = store0 /\ conversation_statistics = <<>>

\* The order of the steps of the exit branch, which holds: the goodbye is
\* printed first, the statistics are collected only then and only when
\* store_conversation is set, and a file is written only after that.
ExitOrder ==
    [][ /\ (pc = "awaiting" /\ pc' \in ExitBranch) =>
              /\ stdout' = Append(stdout, BotLine[bot.goodbye])
              /\ conversation_statistics' = <<>>
              /\ store' = store
              /\ pc' = IF bot.store_conversation THEN "collect" ELSE "closed"
        /\ (conversation_statistics' # <<>> /\ conversation_statistics = <<>>) =>
              /\ pc = "collect"
              /\ bot.store_conversation
              /\ stdout[Len(stdout)] = BotLine[bot.goodbye]
              /\ store' = store
        /\ (store' # store) =>
              /\ pc = "store" /\ pc' = "closed"
              /\ bot.store_conversation
              /\ Len(conversation_statistics) = 1 ]_vars

\* C8 as stated: once run_chat has returned through the exit cue a call of
\* generate_response is refused and the log stays as it is.
ClosedSessionRefusesTurns ==
    [][ (pc = "closed" /\ pc' # "exited") =>
            (bot'.messages = bot.messages /\ exception' = "SessionClosedError") ]_vars

\* the characters of the user messages of a log, summed entry by entry
RECURSIVE UserCharacters(_)
UserCharacters(messages) ==
    IF messages = <<>> THEN 0
    ELSE (IF Head(messages).role = "user" THEN Len(Head(messages).content) ELSE 0)
         + UserCharacters(Tail(messages))

\* C9: the character count of the summary is the characters of all user
\* messages of the log, those of the prior chat included, plus the length of
\* the exit cue once.
UserCharCount ==
    (pc = "store") =>
        conversation_statistics[1]["Number of characters typed by user"]
            = UserCharacters(bot.messages) + Len(bot.exit_cue)

UserCharCountWitness ==
    /\ pc = "store"
    /\ prior_chat.given
    /\ UserPositions(prior_chat.messages) # {}
    /\ turns = 1
    /\ user_input = bot.exit_cue
    /\ conversation_statistics[1]["Number of characters typed by user"] > 4 + Len(ExitPadded)

(***************************************************************************)
(* Properties of the stored artifacts.                                     *)
(***************************************************************************)
\* the files of a folder whose names carry this timestamp
FilesOfMinute(files, timestamp) ==
    {f \in DOMAIN files :
        /\ Len(f) >= Len(FilePrefix) + Len(timestamp)
        /\ SubSeq(f, 1, Len(FilePrefix) + Len(timestamp)) = FilePrefix \o timestamp}

\* the name the claim gives the save that follows k saves of the same minute
NameOfSave(timestamp, k) ==
    IF k = 0 THEN PlainName(timestamp) ELSE CounterName(timestamp, k)

\* C10: a save adds exactly one file and leaves every file of the folder in
\* place with its content; in a minute for which the folder held nothing
\* before the first run, the save that follows k saves of that minute writes
\* the unnumbered name for k = 0 and the name numbered (k) otherwise, so k
\* saves of a minute leave k different files.
SavesNeverCollide ==
    [][ (store' # store) =>
            LET timestamp == Timestamp(now')
                saved     == Cardinality(FilesOfMinute(store, timestamp))
            IN  /\ \A f \in DOMAIN store : f \in DOMAIN store' /\ store'[f] = store[f]
                /\ Cardinality(DOMAIN store' \ DOMAIN store) = 1
                /\ FilesOfMinute(store0, timestamp) = {} =>
                      /\ DOMAIN store' \ DOMAIN store = {NameOfSave(timestamp, saved)}
                      /\ FilesOfMinute(store', timestamp)
                            = {NameOfSave(timestamp, k) : k \in 0..saved} ]_vars

SavesNeverCollideWitness ==
    /\ FilesOfMinute(store0, Timestamp(now)) = {}
    /\ FilesOfMinute(store, Timestamp(now))
          = {PlainName(Timestamp(now)), CounterName(Timestamp(now), 1),
             CounterName(Timestamp(now), 2)}
    /\ Cardinality(FilesOfMinute(store, Timestamp(now))) = 3

(***************************************************************************)
(* One run of the program on lines that state a name or a topic.           *)
(***************************************************************************)
NextExtract == NextOver(Personas, ExtractLines, {Gloomy}, MaxTurns)

SpecExtract == Init /\ [][NextExtract]_vars

(***************************************************************************)
(* Properties of the extracted name.                                       *)
(***************************************************************************)
\* the message holds the keyword phrase in some letter case
StatesName(message) == Contains(Lower(message), MyNameIs)

\* the positions of the messages that hold the keyword phrase
PhrasePositions(user_messages) ==
    {i \in 1..Len(user_messages) : StatesName(user_messages[i])}

\* the first message that holds the keyword phrase
FirstWithPhrase(user_messages) ==
    user_messages[CHOOSE i \in PhrasePositions(user_messages) :
                      \A j \in PhrasePositions(user_messages) : i <= j]

\* the positions of a word among the words of a message
WordPositions(words, word) == {i \in 1..Len(words) : words[i] = word}

\* the first position of a word that occurs among the words of a message
FirstWordPosition(words, word) ==
    CHOOSE i \in WordPositions(words, word) : \A j \in WordPositions(words, word) : i <= j

\* the statistics have been collected and are about to be stored
Collected == pc = "store"

\* the name the collected statistics give
CollectedName == conversation_statistics[1]["Name of user"]

\* C11 as stated: when the first message with the phrase has a word after
\* its first word "is", that word is the name.
NameFollowsFirstIs ==
    (Collected /\ PhrasePositions(UserMessages(bot)) # {}) =>
        LET words == Split(FirstWithPhrase(UserMessages(bot)))
        IN  (/\ WordPositions(words, <<"i", "s">>) # {}
             /\ FirstWordPosition(words, <<"i", "s">>) + 1 <= Len(words)) =>
                CollectedName = words[FirstWordPosition(words, <<"i", "s">>) + 1]

\* C11 amended: when the first message with the phrase has a word two places
\* after its first word "name", that word is the name, also when "is" or
\* another word stands before the phrase.
NameFollowsFirstName ==
    (Collected /\ PhrasePositions(UserMessages(bot)) # {}) =>
        LET words == Split(FirstWithPhrase(UserMessages(bot)))
        IN  (/\ WordPositions(words, NameWord) # {}
             /\ FirstWordPosition(words, NameWord) + 2 <= Len(words)) =>
                CollectedName = words[FirstWordPosition(words, NameWord) + 2]

NameFollowsFirstNameWitness ==
    /\ Collected
    /\ ~prior_chat.given
    /\ PhrasePositions(UserMessages(bot)) # {}
    /\ FirstWithPhrase(UserMessages(bot)) = IsBeforeName
    /\ CollectedName = <<"A", "l">>

\* the message has a word two places after its first word "name"
HasWordAfterPhrase(message) ==
    LET words == Split(message)
    IN  /\ WordPositions(words, NameWord) # {}
        /\ FirstWordPosition(words, NameWord) + 2 <= Len(words)

\* the positions of the messages with the phrase that go on to a name
NamingPositions(user_messages) ==
    {i \in PhrasePositions(user_messages) : HasWordAfterPhrase(user_messages[i])}

\* C12 as stated: the first message with the phrase decides; when it has no
\* word after the phrase, or no message has the phrase, the name is UNKNOWN.
FirstMatchDecides ==
    Collected =>
        /\ PhrasePositions(UserMessages(bot)) = {} => CollectedName = Unknown
        /\ (/\ PhrasePositions(UserMessages(bot)) # {}
            /\ ~HasWordAfterPhrase(FirstWithPhrase(UserMessages(bot)))) =>
              CollectedName = Unknown

\* C12 amended: the first message that has the phrase and a word after it
\* decides and nothing behind it is looked at; a message with the phrase and
\* no word after it is passed over, so a later message can give the name; the
\* name is UNKNOWN when no message has the phrase or none of them goes on.
FirstNamingMessageDecides ==
    Collected =>
        LET user_messages == UserMessages(bot)
            naming        == NamingPositions(user_messages)
        IN  IF naming = {} THEN CollectedName = Unknown
            ELSE LET first == CHOOSE i \in naming : \A j \in naming : i <= j
                     words == Split(user_messages[first])
                 IN  CollectedName = words[FirstWordPosition(words, NameWord) + 2]

FirstNamingMessageDecidesWitness ==
    /\ Collected
    /\ ~prior_chat.given
    /\ ContentsOf(bot.messages, "user") = <<NameBare, MyNameIsAl>>
    /\ CollectedName = <<"A", "l">>

(***************************************************************************)
(* Properties of the extracted topic.                                      *)
(***************************************************************************)
\* the topic the collected statistics give
CollectedTopic == conversation_statistics[1]["Subject of conversation"]

\* the words of the first user message, without their punctuation, that are
\* neither a stop word nor the name of the bot
TopicWords ==
    LET words == Split(UserMessages(bot)[1])
    IN  SelectSeq([i \in 1..Len(words) |-> StripPunctuation(words[i])],
                  LAMBDA word : word \notin StopWords(bot.name))

\* C13 as stated: the topic is the surviving words of the first user message
\* joined by single blanks, or UNKNOWN when none survives, and it is never
\* empty or blank, also when a word is made of punctuation only.
TopicNeverBlank ==
    Collected =>
        /\ CollectedTopic = IF TopicWords = <<>> THEN Unknown ELSE JoinWithSpaces(TopicWords)
        /\ CollectedTopic # <<>>
        /\ \E i \in 1..Len(CollectedTopic) : CollectedTopic[i] \notin Whitespace

(***************************************************************************)
(* Properties of the collected statistics.                                 *)
(***************************************************************************)
\* the words of a text: the places where, punctuation taken out, a character
\* that is not whitespace stands first or behind whitespace
WordCount(text) ==
    LET clean == SelectSeq(text, LAMBDA c : IsWordChar(c) \/ c \in Whitespace)
    IN  Cardinality({i \in 1..Len(clean) :
                        /\ clean[i] \notin Whitespace
                        /\ (i = 1 \/ clean[i - 1] \in Whitespace)})

\* the words of the assistant messages of a log, summed entry by entry
RECURSIVE AssistantWords(_)
AssistantWords(messages) ==
    IF messages = <<>> THEN 0
    ELSE (IF Head(messages).role = "assistant" THEN WordCount(Head(messages).content) ELSE 0)
         + AssistantWords(Tail(messages))

\* C14: the steps that print the start prompt and the goodbye leave the log as
\* it is, no entry of the log ever holds either text, and the word count of the summary is the words of the start prompt, of every
\* assistant message of the log and of the goodbye, each taken once.
PromptsCountedNotLogged ==
    /\ [][ /\ pc = "constructed" =>
                 /\ stdout' = Append(stdout, BotLine[bot.start_prompt])
                 /\ bot'.messages = bot.messages
           /\ (pc = "awaiting" /\ pc' \in ExitBranch) =>
                 /\ stdout' = Append(stdout, BotLine[bot.goodbye])
                 /\ bot'.messages = bot.messages ]_vars
    /\ [](\A i \in 1..Len(bot.messages) :
             bot.messages[i].content \notin {bot.start_prompt, bot.goodbye})
    /\ [](Collected =>
             conversation_statistics[1]["Number of words used by chatbot"]
                 = WordCount(bot.start_prompt) + AssistantWords(bot.messages)
                   + WordCount(bot.goodbye))

PromptsCountedNotLoggedWitness ==
    /\ Collected
    /\ ~prior_chat.given
    /\ bot.name = VeraName
    /\ ContentsOf(bot.messages, "assistant") = <<Gloomy, TwoLines>>
    /\ conversation_statistics[1]["Number of words used by chatbot"] = 19

\* C15: collecting the statistics leaves the log entry for entry as it was,
\* without the exit cue, the start prompt or the goodbye, and the summary
\* holds that log as its messages.
StatisticsOnlyRead ==
    [][ (pc = "collect") =>
            /\ bot'.messages = bot.messages
            /\ (pc' = "store") =>
                  conversation_statistics'[1]["Messages"] = bot.messages ]_vars

StatisticsOnlyReadWitness ==
    /\ Collected
    /\ turns = 2
    /\ Len(bot.messages) = 5
    /\ conversation_statistics[1]["Messages"] = bot.messages
    /\ bot.messages[Len(bot.messages)].role = "assistant"

\* the first log is the beginning of the second
IsPrefix(before, after) ==
    /\ Len(before) <= Len(after)
    /\ SubSeq(after, 1, Len(before)) = before

\* a Chatbot exists
BotAlive == pc \notin {"idle", "exited"}

\* C16: from the construction of the bot to the end of its run every step
\* leaves the log it found as the beginning of the log it leaves: entries are
\* added at the end and none is changed, moved or removed.
LogAppendOnly ==
    [][ (BotAlive /\ pc' # "exited") => IsPrefix(bot.messages, bot'.messages) ]_vars

LogAppendOnlyWitness ==
    /\ pc = "awaiting"
    /\ prior_chat.given
    /\ turns = 2
    /\ Len(bot.messages) = Len(filter_prior_chat(bot.personality, prior_chat.messages)) + 4
    /\ IsPrefix(filter_prior_chat(bot.personality, prior_chat.messages), bot.messages)

(***************************************************************************)
(* Runs of the program that resume what earlier runs saved, with either    *)
(* bot.                                                                    *)
(***************************************************************************)
NextChain ==
    \/ NextOver(Personas, {DefaultExitCue, Hi}, {Gloomy}, MaxStoreTurns)
    \/ RunAgainUpTo(MaxChain)

SpecChain == Init /\ [][NextChain]_vars

\* the positions of the system messages of a log
AllSystemPositions(messages) == {i \in 1..Len(messages) : messages[i].role = "system"}

\* C17: whatever chain of runs, saves and resumptions led to it, the log of a
\* bot holds at most one system message, and it carries the personality of
\* that bot.
OneSystemMessage ==
    BotAlive =>
        /\ Cardinality(AllSystemPositions(bot.messages)) <= 1
        /\ \A i \in AllSystemPositions(bot.messages) :
              bot.messages[i].content = bot.personality

\* a bot resumed, as the other persona, from an artifact that a resumed
\* conversation saved in an earlier run
OneSystemMessageWitness ==
    /\ pc = "awaiting"
    /\ sessions = 2
    /\ prior_chat.given
    /\ bot.personality = HenryPersonality
    /\ AllSystemPositions(prior_chat.messages) = {Len(prior_chat.messages)}
    /\ Len(prior_chat.messages) >= 3
    /\ prior_chat.messages[Len(prior_chat.messages)].content = VeraPersonality
    /\ AllSystemPositions(bot.messages) = {Len(bot.messages)}

(***************************************************************************)
(* Properties of the exit cue.                                             *)
(***************************************************************************)
\* reading the exit cue starts no turn: the log stays and no request is made
ExitCueStartsNoTurn ==
    (pc = "awaiting" /\ user_input' = bot.exit_cue) =>
        /\ bot'.messages = bot.messages
        /\ ~WithBackend'
        /\ calls' = calls

\* the log of the summary holds one user message for each turn, besides
\* those of the prior chat, and the characters counted are theirs and the cue's
ExitCueCountedOnce ==
    LET logged == conversation_statistics[1]["Messages"]
    IN  /\ Cardinality(UserPositions(logged))
              = turns + Cardinality(UserPositions(prior_chat.messages))
        /\ conversation_statistics[1]["Number of characters typed by user"]
              = UserCharacters(logged) + Len(bot.exit_cue)

\* C18 as stated: the exit cue is neither sent to the backend nor appended to
\* the log, the stored log has one user message for each turn besides those of
\* the prior chat, and the cue goes into the count of characters only: name
\* and topic are those of the user messages of the log.
ExitCueOnlyCounted ==
    /\ [][ExitCueStartsNoTurn]_vars
    /\ [](Collected =>
            LET typed == ContentsOf(bot.messages, "user")
            IN  /\ ExitCueCountedOnce
                /\ CollectedName = extract_user_name(typed).value
                /\ CollectedTopic = IF typed = <<>> THEN Unknown
                                    ELSE extract_conversation_topic(bot.name, typed))

\* C18 amended: as stated, but when the log holds no user message the topic
\* is computed from the exit cue.
ExitCueCountedAndTopicOfEmptyLog ==
    /\ [][ExitCueStartsNoTurn]_vars
    /\ [](Collected =>
            LET typed == ContentsOf(bot.messages, "user")
            IN  /\ ExitCueCountedOnce
                /\ CollectedName = extract_user_name(typed).value
                /\ CollectedTopic = IF typed = <<>>
                                    THEN extract_conversation_topic(bot.name, <<bot.exit_cue>>)
                                    ELSE extract_conversation_topic(bot.name, typed))

ExitCueCountedAndTopicOfEmptyLogWitness ==
    /\ Collected
    /\ turns = 0
    /\ ContentsOf(bot.messages, "user") = <<>>
    /\ user_input = bot.exit_cue
    /\ CollectedTopic = DefaultExitCue
    /\ conversation_statistics[1]["Number of characters typed by user"] = 4

(***************************************************************************)
(* Totality of the statistics.                                             *)
(***************************************************************************)
\* C19 as stated: get_conversation_statistics returns a summary without
\* raising for every log, so a session that stores its conversation and reads
\* the exit cue goes on to save its artifact: the collection never ends the
\* run with an exception, and its step leads to the writing of the file.
StatisticsTotal ==
    /\ [][pc = "collect" => (pc' = "store" /\ conversation_statistics' # <<>>)]_vars
    /\ [](pc = "collect" => ~get_conversation_statistics(bot).raised)
    /\ [](exception # "ValueError")

(***************************************************************************)
(* A failure of the backend inside run_chat.                               *)
(***************************************************************************)
\* the backend call of a turn of run_chat raises
TurnFails == pc = "generating" /\ exception = "none" /\ exception' = "OpenAIError"

\* C20: when the backend call of a turn of run_chat fails, whatever number of
\* turns went well before, the run is over: the goodbye has not been printed,
\* no summary exists and the folder is as the run found it; the only step
\* left is the end of the process, which makes no further request and writes
\* no file.
FailureEndsSession ==
    [][ /\ TurnFails =>
              /\ pc' = "failed"
              /\ BotLine[bot.goodbye] \notin Range(stdout')
              /\ conversation_statistics' = <<>>
              /\ store' = store0
              /\ turns' = turns /\ calls' = calls
        /\ pc = "failed" =>
              /\ pc' = "exited"
              /\ store' = store
              /\ calls' = calls ]_vars

FailureEndsSessionWitness ==
    /\ pc = "failed"
    /\ exception = "OpenAIError"
    /\ bot.store_conversation
    /\ turns = 2
    /\ calls = 2
    /\ BotLine[bot.goodbye] \notin Range(stdout)
    /\ conversation_statistics = <<>>
    /\ store = store0

====
